---------------------------- MODULE Spec2Model ----------------------------
(***************************************************************************)
(* Model of the GEO/GSO pipeline: the retry-driven article generator       *)
(* (src/src/article_generator.py), the quality scorer (src/src/scorer.py), *)
(* the deduplication engine (src/src/deduplication.py) and the batch       *)
(* orchestration of run_pipeline (src/generate.py).                        *)
(*                                                                         *)
(* Each component has its own specification (SpecGen, SpecScore,           *)
(* SpecDedup, SpecPipe, SpecLoad for _get_model under concurrent callers,  *)
(* and SpecLlm for the provider clients of src/src/llm_client.py) over     *)
(* the shared variables; a specification leaves the other components'      *)
(* variables at their initial values.                                      *)
(***************************************************************************)
EXTENDS Integers, Sequences, FiniteSets, TLC

VARIABLES
    \* ---- ArticleGenerator.generate (one call) ----
    gpc,            \* position in generate: Idle, Generating, Parsing, Validating, AfterLoop, Accepted, RetryExhausted, Raised
    max_retries,    \* the caller's attempt bound
    attempt,        \* the loop variable of `for attempt in range(1, max_retries + 1)`
    raw_content,    \* the text the Generator returned on this attempt
    article,        \* the local `article`: <<>> while unbound, <<ArticleData>> once assigned
    gresult,        \* what generate returned: <<>> or <<ArticleData>>
    gexc,           \* the exception generate ended with, "" when none
    llmExc,         \* the exception llm.generate_article raised, "" when none
    genCalls,       \* number of llm.generate_article calls made
    texts,          \* the raw texts those calls returned, in order
    parseCalls,     \* number of _parse_article calls
    validated,      \* the error list of every _validate call, in order
    parsed,         \* the ArticleData every _parse_article call returned, in order
    apiAttempt,     \* `attempt` of the client's own loop in the running generate_article
    apiRequests,    \* the provider API requests issued since generate was called
    \* ---- ArticleScorer.score ----
    sArticle,       \* the article handed to score
    sSim,           \* similarity_score handed to score
    sEnv,           \* what the text statistics of the content evaluate to
    sResult,        \* <<>> before the call, <<ScoreResult or raised>> after
    \* ---- DeduplicationEngine ----
    thresholdArg,   \* the threshold argument the engine was constructed with (<<>> = None)
    threshold,      \* self.threshold of the engine
    model_loaded,   \* the module global _model is not None
    modelLoads,     \* number of SentenceTransformer constructions
    encodeCalls,    \* number of model.encode calls
    dArticles,      \* the batch of the last analyze call (slugs)
    dSims,          \* the cosine similarities computed for that batch
    dResult,        \* <<>> before the first analyze, <<DeduplicationResult>> after
    analyzeCalls,   \* number of analyze calls made
    \* ---- _get_model under concurrent callers ----
    _model,         \* the module global: 0 = None, k = the k-th instance constructed
    constructed,    \* number of SentenceTransformer(EMBEDDING_MODEL) constructions
    cpc,            \* cpc[c]: position of caller c in _get_model
    cnew,           \* cnew[c]: the instance caller c constructed and has not stored yet
    cgot,           \* cgot[c]: the instance _get_model returned to caller c (0 = not yet)
    \* ---- a provider client's generate_article (one call) ----
    provider,       \* which client class runs: "openai" (also DeepSeek), "anthropic", "gemini"
    lpc,            \* position: idle, request, afterloop, returned, raised
    lattempt,       \* the loop variable of `for attempt in range(1, self.max_retries + 1)`
    outcomes,       \* what every API request of the call ended with, in order
    waits,          \* the arguments of every time.sleep of the call, in order
    lret,           \* the text returned ("" while none)
    lexc,           \* the exception the call ended with ("" when none)
    \* ---- run_pipeline ----
    ppc,            \* position in run_pipeline
    parallel,       \* the parallel flag
    topics,         \* number of topics loaded
    fate,           \* fate[i]: what generator.generate does for topic i ("ok" or "raise")
    pending,        \* parallel: the executor's work queue (submitted, not yet started)
    running,        \* topics whose generation is in progress
    finished,       \* parallel: completed futures not yet consumed by as_completed
    results,        \* parallel: the results list (0 = None, i = article of topic i)
    seqIndex,       \* the next topic of the submit loop or of the sequential loop (1-based)
    articles,       \* the articles list
    errorLog,       \* topics reported with logger.error
    attempted,      \* topics whose generation was started
    escaped,        \* the exception run_pipeline ended with ("" when none)
    pSims,          \* the cosine similarities of the articles handed to analyze
    dedup_result,   \* <<>> before dedup_engine.analyze returned, <<DeduplicationResult>> after
    pAnalyzeCalls,  \* number of dedup_engine.analyze calls
    scoreIndex,     \* the position of the scoring loop in articles (1-based)
    scoreCalls,     \* the (article, similarity_score) of every scorer.score call, in order
    scores,         \* the scores list
    exported        \* the articles the exporter wrote

genVars   == <<gpc, max_retries, attempt, raw_content, article, gresult, gexc, llmExc,
               genCalls, texts, parseCalls, validated, parsed, apiAttempt, apiRequests>>
scoreVars == <<sArticle, sSim, sEnv, sResult>>
dedupVars == <<thresholdArg, threshold, model_loaded, modelLoads, encodeCalls, dArticles, dSims,
               dResult, analyzeCalls>>
pipeVars  == <<ppc, parallel, topics, fate, pending, running, finished, results,
               seqIndex, articles, errorLog, attempted, escaped, pSims, dedup_result,
               pAnalyzeCalls, scoreIndex, scoreCalls, scores, exported>>
loadVars  == <<_model, constructed, cpc, cnew, cgot>>
llmVars   == <<provider, lpc, lattempt, outcomes, waits, lret, lexc>>
vars      == <<genVars, scoreVars, dedupVars, pipeVars, loadVars, llmVars>>

\* what an action of one component leaves alone
otherThanGen   == <<scoreVars, dedupVars, pipeVars, loadVars, llmVars>>
otherThanScore == <<genVars, dedupVars, pipeVars, loadVars, llmVars>>
otherThanDedup == <<genVars, scoreVars, pipeVars, loadVars, llmVars>>
otherThanPipe  == <<genVars, scoreVars, dedupVars, loadVars, llmVars>>
otherThanLoad  == <<genVars, scoreVars, dedupVars, pipeVars, llmVars>>
otherThanLlm   == <<genVars, scoreVars, dedupVars, pipeVars, loadVars>>

-----------------------------------------------------------------------------
(* Generic helpers *)

Max(a, b) == IF a >= b THEN a ELSE b
Min(a, b) == IF a <= b THEN a ELSE b

InSeq(x, s) == \E i \in 1..Len(s) : s[i] = x

RECURSIVE Repeat(_, _)
Repeat(x, n) == IF n <= 0 THEN <<>> ELSE <<x>> \o Repeat(x, n - 1)

-----------------------------------------------------------------------------
(* Configuration: src/src/config.py *)

MAX_RETRIES       == 3
MIN_H2_SECTIONS   == 4
MIN_FAQ_QUESTIONS == 5
MIN_SOURCES       == 3
META_DESC_MIN     == 150
META_DESC_MAX     == 160
MAX_INTRO_LINES   == 5
MIN_TAKEAWAYS     == 5
\* SCORE_WEIGHTS: every criterion is out of 20
SCORE_WEIGHT      == 20
\* SIMILARITY_THRESHOLD = 0.85; similarities are counted in units of 0.00001
SIMILARITY_THRESHOLD == 85000

-----------------------------------------------------------------------------
(* Raw article text.  A text is a sequence of lines; a line is a record     *)
(* [k, s, n]: k is what the parser's patterns recognise the line as, s its  *)
(* text payload and n its numeric payload.                                  *)
(*   h1      "# s"                                                          *)
(*   metab   "**Meta description:** ..." whose text has n characters once   *)
(*           stripped; meta is the same line without the bold marker        *)
(*   h2      "## s" (s lower-cased and stripped)                            *)
(*   qa      "**Q: s?**" + "A: ..."        nqa   "1. **s?**" + answer       *)
(*   url     a line holding the URL s followed by n of the chars . , ; :    *)
(*   bullet  "- s"        author  "**s** - bio"       text, blank           *)
(*   authorhead  a line holding "About the Author" that is not a heading    *)

Ln(k, s, n) == [k |-> k, s |-> s, n |-> n]

RECURSIVE FirstFrom(_, _, _)
\* index of the first line at or after i whose kind is in kinds, 0 when none
FirstFrom(content, kinds, i) ==
    IF i > Len(content) THEN 0
    ELSE IF content[i].k \in kinds THEN i
         ELSE FirstFrom(content, kinds, i + 1)

RECURSIVE FirstH2(_, _, _)
\* index of the first "## name" heading at or after i, 0 when none
FirstH2(content, name, i) ==
    IF i > Len(content) THEN 0
    ELSE IF content[i].k = "h2" /\ content[i].s = name THEN i
         ELSE FirstH2(content, name, i + 1)

\* the lines strictly between positions i and j
Between(content, i, j) == SubSeq(content, i + 1, j - 1)

OfKind(content, kind) == SelectSeq(content, LAMBDA l : l.k = kind)

_parse_title(content) ==
    LET i == FirstFrom(content, {"h1"}, 1)
    IN  IF i = 0 THEN "" ELSE content[i].s

\* the meta description is represented by its length (0 is the empty string)
_parse_meta_description(content) ==
    LET i == FirstFrom(content, {"metab"}, 1)
        j == FirstFrom(content, {"metab", "meta"}, 1)
    IN  IF i # 0 THEN content[i].n
        ELSE IF j # 0 THEN content[j].n ELSE 0

\* mutant: the numbered matches are added to the primary ones
_parse_faq_merged(content) ==
    LET primary  == OfKind(content, "qa")
        numbered == OfKind(content, "nqa")
    IN  [i \in 1..Len(primary) |-> primary[i].s]
        \o [i \in 1..Len(numbered) |-> numbered[i].s]

_parse_faq(content) ==
    LET primary  == OfKind(content, "qa")
        numbered == OfKind(content, "nqa")
        faq_list == [i \in 1..Len(primary) |-> primary[i].s]
    IN  IF faq_list # <<>> THEN faq_list
        ELSE [i \in 1..Len(numbered) |-> numbered[i].s]

RECURSIVE UniqueUrls(_, _, _)
UniqueUrls(urls, seen, i) ==
    IF i > Len(urls) THEN <<>>
    ELSE LET url_clean == urls[i].s     \* url.rstrip('.,;:') drops the n trailing chars
         IN  IF url_clean \notin seen
             THEN <<url_clean>> \o UniqueUrls(urls, seen \cup {url_clean}, i + 1)
             ELSE UniqueUrls(urls, seen, i + 1)

\* mutant: every match is kept, repeated or not
_parse_sources_all(content) ==
    LET urls == OfKind(content, "url") IN [i \in 1..Len(urls) |-> urls[i].s]

_parse_sources(content) == UniqueUrls(OfKind(content, "url"), {}, 1)

RECURSIVE FirstAuthorMarker(_, _)
\* index of the first line holding "About the Author" or "Auteur", 0 when none
FirstAuthorMarker(content, i) ==
    IF i > Len(content) THEN 0
    ELSE IF \/ content[i].k = "authorhead"
            \/ content[i].k = "h2" /\ content[i].s \in {"about the author", "auteur"}
         THEN i
         ELSE FirstAuthorMarker(content, i + 1)

\* the author's name ("" when the author block is not found)
_parse_author(content) ==
    LET i == FirstAuthorMarker(content, 1)
        j == IF i = 0 THEN 0 ELSE FirstFrom(content, {"author"}, i + 1)
    IN  IF j = 0 THEN "" ELSE content[j].s

_parse_takeaways(content) ==
    LET i == FirstH2(content, "key takeaways", 1)
        j == IF i = 0 THEN 0 ELSE FirstFrom(content, {"h2"}, i + 1)
        e == IF j = 0 THEN Len(content) + 1 ELSE j
        items == IF i = 0 THEN <<>> ELSE OfKind(Between(content, i, e), "bullet")
    IN  [x \in 1..Len(items) |-> items[x].s]

ExcludedH2 == {"faq", "key takeaways", "sources", "table of contents", "introduction",
               "about the author", "auteur", "sommaire"}

_count_h2_sections(content) ==
    Len(SelectSeq(content, LAMBDA l : l.k = "h2" /\ l.s \notin ExcludedH2))

_count_intro_lines(content) ==
    LET i == FirstH2(content, "introduction", 1)
        j == IF i = 0 THEN 0 ELSE FirstFrom(content, {"h2"}, i + 1)
    IN  IF j = 0 THEN 0
        ELSE Len(SelectSeq(Between(content, i, j), LAMBDA l : l.k # "blank"))

\* _parse_article: a fresh ArticleData; validation_errors starts empty
_parse_article(content, topic, language, tone, slug) ==
    [ topic |-> topic, language |-> language, tone |-> tone, slug |-> slug,
      title |-> _parse_title(content),
      meta_description |-> _parse_meta_description(content),
      content_markdown |-> content,
      faq |-> _parse_faq(content),
      sources |-> _parse_sources(content),
      author |-> _parse_author(content),
      key_takeaways |-> _parse_takeaways(content),
      h2_count |-> _count_h2_sections(content),
      intro_lines |-> _count_intro_lines(content),
      validation_errors |-> <<>> ]

Err(e, n) == [e |-> e, n |-> n]

\* mutant: the length test is an `if`, not an `elif`: a missing meta description is
\* reported a second time as a length violation
_validate_metaTwice(a) ==
       (IF a.title = "" THEN <<Err("Missing H1 title", 0)>> ELSE <<>>)
    \o (IF a.meta_description = 0 THEN <<Err("Missing meta description", 0)>> ELSE <<>>)
    \o (IF a.meta_description < META_DESC_MIN \/ a.meta_description > META_DESC_MAX + 20
        THEN <<Err("Meta description length", a.meta_description)>> ELSE <<>>)
    \o (IF a.h2_count < MIN_H2_SECTIONS THEN <<Err("H2 body sections", a.h2_count)>> ELSE <<>>)
    \o (IF Len(a.faq) < MIN_FAQ_QUESTIONS THEN <<Err("FAQ questions", Len(a.faq))>> ELSE <<>>)
    \o (IF Len(a.sources) < MIN_SOURCES THEN <<Err("sources", Len(a.sources))>> ELSE <<>>)
    \o (IF Len(a.key_takeaways) < MIN_TAKEAWAYS
        THEN <<Err("takeaways", Len(a.key_takeaways))>> ELSE <<>>)

\* _validate: the ordered list of violations; each carries the number its message shows
_validate(a) ==
       (IF a.title = "" THEN <<Err("Missing H1 title", 0)>> ELSE <<>>)
    \o (IF a.meta_description = 0 THEN <<Err("Missing meta description", 0)>>
        ELSE IF a.meta_description < META_DESC_MIN \/ a.meta_description > META_DESC_MAX + 20
             THEN <<Err("Meta description length", a.meta_description)>> ELSE <<>>)
    \o (IF a.h2_count < MIN_H2_SECTIONS THEN <<Err("H2 body sections", a.h2_count)>> ELSE <<>>)
    \o (IF Len(a.faq) < MIN_FAQ_QUESTIONS THEN <<Err("FAQ questions", Len(a.faq))>> ELSE <<>>)
    \o (IF Len(a.sources) < MIN_SOURCES THEN <<Err("sources", Len(a.sources))>> ELSE <<>>)
    \o (IF Len(a.key_takeaways) < MIN_TAKEAWAYS
        THEN <<Err("takeaways", Len(a.key_takeaways))>> ELSE <<>>)

-----------------------------------------------------------------------------
(* The texts a Generator may return *)

TitleLines(t)  == <<Ln("h1", t, 0)>>
MetaLines(n)   == <<Ln("metab", "", n)>>
IntroLines     == <<Ln("h2", "introduction", 0), Ln("text", "", 0), Ln("blank", "", 0),
                    Ln("text", "", 0)>>
BodyLines(k)   == [i \in 1..(2 * k) |-> IF i % 2 = 1 THEN Ln("h2", "body", i) ELSE Ln("text", "", 0)]
TakeawayLines(k) == <<Ln("h2", "key takeaways", 0)>> \o [i \in 1..k |-> Ln("bullet", "point", i)]
FaqLines(kind, k) == <<Ln("h2", "faq", 0)>> \o [i \in 1..k |-> Ln(kind, "question", i)]
SourceLines    == <<Ln("h2", "sources", 0), Ln("url", "https://a.org/x", 0),
                    Ln("url", "https://b.org/y", 1), Ln("url", "https://a.org/x", 1),
                    Ln("url", "https://c.org/z", 0)>>
AuthorLines    == <<Ln("authorhead", "", 0), Ln("blank", "", 0), Ln("author", "Jane Doe", 0)>>

ValidTextA == TitleLines("Title A") \o MetaLines(155) \o IntroLines \o BodyLines(4)
              \o TakeawayLines(5) \o FaqLines("qa", 5) \o SourceLines \o AuthorLines
ValidTextB == TitleLines("Title B") \o <<Ln("meta", "", 180)>> \o IntroLines \o BodyLines(5)
              \o TakeawayLines(6) \o FaqLines("nqa", 5) \o SourceLines
NoTitleText == MetaLines(155) \o IntroLines \o BodyLines(4)
              \o TakeawayLines(5) \o FaqLines("qa", 5) \o SourceLines \o AuthorLines
ShortMetaText == TitleLines("Title C") \o MetaLines(100) \o IntroLines \o BodyLines(4)
              \o TakeawayLines(5) \o FaqLines("qa", 5) \o SourceLines \o AuthorLines
ThinText   == TitleLines("Title D") \o MetaLines(181) \o BodyLines(2) \o TakeawayLines(1)
              \o FaqLines("qa", 2) \o <<Ln("url", "https://a.org/x", 0)>>
EmptyText  == <<>>
\* every count one below its minimum
EdgeText   == TitleLines("Title E") \o MetaLines(149) \o IntroLines \o BodyLines(3)
              \o TakeawayLines(4) \o FaqLines("qa", 4)
              \o <<Ln("h2", "sources", 0), Ln("url", "https://a.org/x", 0),
                   Ln("url", "https://b.org/y", 1)>> \o AuthorLines

\* an FAQ written in both forms, the numbered questions first; a URL repeated with
\* and without trailing punctuation
MixedFaqText == TitleLines("Title F") \o MetaLines(155) \o IntroLines \o BodyLines(4)
              \o TakeawayLines(5)
              \o <<Ln("h2", "faq", 0), Ln("nqa", "numbered", 1), Ln("nqa", "numbered", 2),
                   Ln("nqa", "numbered", 3), Ln("qa", "question", 1), Ln("nqa", "numbered", 4),
                   Ln("qa", "question", 2)>>
              \o SourceLines \o AuthorLines

RawTexts == {ValidTextA, ValidTextB, NoTitleText, ShortMetaText, ThinText, EmptyText,
             EdgeText, MixedFaqText}

\* the exceptions llm.generate_article ends with (src/src/llm_client.py)
LlmErrors == {"retries exhausted", "fatal error"}

\* the largest attempt bound a caller passes in the model
MaxRetriesArg == 3

-----------------------------------------------------------------------------
(* ArticleGenerator.generate *)

None    == <<>>
Some(x) == <<x>>
Last(s) == s[Len(s)]

Topic    == "Topic A"
Language == "en"
Tone     == "expert"
\* generate_slug(Topic)
Slug     == "topic-a"

GenInit ==
    /\ gpc = "Idle"
    /\ max_retries = 0
    /\ attempt = 0
    /\ raw_content = <<>>
    /\ article = None
    /\ gresult = None
    /\ gexc = ""
    /\ llmExc = ""
    /\ genCalls = 0
    /\ texts = <<>>
    /\ parseCalls = 0
    /\ validated = <<>>
    /\ parsed = <<>>
    /\ apiAttempt = 0
    /\ apiRequests = 0

\* `for attempt in range(1, max_retries + 1)`: the body runs for attempt 1 iff max_retries >= 1
LoopEnters(n) == 1 <= n

\* mutant: the loop bound off by one
AttemptsRemain_offByOne == attempt <= max_retries

\* the loop has a next iteration after this one
AttemptsRemain == attempt < max_retries

\* mutant: a valid article is not returned at once
Accepts_never(errors) == FALSE

\* `if not errors`
Accepts(errors) == errors = <<>>

\* mutant: the violations are appended to the first attempt's instead of replacing them
AttachErrors_accumulate(a, errors) ==
    [a EXCEPT !.validation_errors = IF validated = <<>> THEN errors ELSE validated[1] \o errors]

\* `article.validation_errors = errors`
AttachErrors(a, errors) == [a EXCEPT !.validation_errors = errors]

\* generate is called with max_retries = n
GenStart(n) ==
    /\ gpc = "Idle"
    /\ max_retries' = n
    /\ attempt' = 1
    /\ gpc' = IF LoopEnters(n) THEN "Generating" ELSE "AfterLoop"
    /\ apiAttempt' = IF LoopEnters(n) THEN 1 ELSE apiAttempt
    /\ UNCHANGED <<raw_content, article, gresult, gexc, llmExc, genCalls, texts, parseCalls, validated>>
    /\ UNCHANGED <<parsed, apiRequests>>
    /\ UNCHANGED otherThanGen

\* mutant: the client's loop makes one request more
ClientAttemptsRemain_oneMore == apiAttempt <= MAX_RETRIES + 1

\* `for attempt in range(1, self.max_retries + 1)` of the client (self.max_retries is
\* MAX_RETRIES): the loop body runs for the current attempt
ClientAttemptsRemain == apiAttempt <= MAX_RETRIES

\* a request of llm.generate_article fails with an error its first except clause
\* names: the client sleeps and goes on to its next attempt
RequestRetried ==
    /\ gpc = "Generating"
    /\ ClientAttemptsRemain
    /\ apiRequests' = apiRequests + 1
    /\ apiAttempt' = apiAttempt + 1
    /\ UNCHANGED <<gpc, max_retries, attempt, raw_content, article, gresult, gexc, llmExc,
                   genCalls, texts, parseCalls, validated, parsed>>
    /\ UNCHANGED otherThanGen

\* llm.generate_article returns text: its current request succeeded
LlmReturn(text) ==
    /\ gpc = "Generating"
    /\ ClientAttemptsRemain
    /\ apiRequests' = apiRequests + 1
    /\ genCalls' = genCalls + 1
    /\ texts' = Append(texts, text)
    /\ raw_content' = text
    /\ gpc' = "Parsing"
    /\ UNCHANGED <<max_retries, attempt, article, gresult, gexc, llmExc, parseCalls, validated>>
    /\ UNCHANGED <<parsed, apiAttempt>>
    /\ UNCHANGED otherThanGen

\* mutant: a Generator failure is treated as a failed attempt and retried
LlmRaise_retried(e) ==
    /\ gpc = "Generating"
    /\ IF e = "retries exhausted"
       THEN ~ClientAttemptsRemain /\ apiRequests' = apiRequests
       ELSE ClientAttemptsRemain /\ apiRequests' = apiRequests + 1
    /\ genCalls' = genCalls + 1
    /\ llmExc' = e
    /\ IF attempt < max_retries
       THEN attempt' = attempt + 1 /\ gpc' = "Generating" /\ gexc' = gexc /\ apiAttempt' = 1
       ELSE attempt' = attempt /\ gpc' = "Raised" /\ gexc' = e /\ apiAttempt' = apiAttempt
    /\ UNCHANGED <<max_retries, raw_content, article, gresult, texts, parseCalls, validated>>
    /\ UNCHANGED parsed
    /\ UNCHANGED otherThanGen

\* llm.generate_article raises, either after its loop ("retries exhausted", no further
\* request) or because its current request failed with an error it does not retry:
\* nothing in generate catches it
LlmRaise(e) ==
    /\ gpc = "Generating"
    /\ IF e = "retries exhausted"
       THEN ~ClientAttemptsRemain /\ apiRequests' = apiRequests
       ELSE ClientAttemptsRemain /\ apiRequests' = apiRequests + 1
    /\ genCalls' = genCalls + 1
    /\ llmExc' = e
    /\ gexc' = e
    /\ gpc' = "Raised"
    /\ UNCHANGED <<max_retries, attempt, raw_content, article, gresult, texts, parseCalls, validated>>
    /\ UNCHANGED <<parsed, apiAttempt>>
    /\ UNCHANGED otherThanGen

\* mutant: the FAQ list is shared between parses, so a parse adds to what the
\* previous parse left in it
Parse_carriesOver ==
    /\ gpc = "Parsing"
    /\ LET fresh == _parse_article(raw_content, Topic, Language, Tone, Slug)
           a == IF parsed = <<>> THEN fresh
                ELSE [fresh EXCEPT !.faq = Last(parsed).faq \o fresh.faq]
       IN  /\ article' = Some(a)
           /\ parsed' = Append(parsed, a)
    /\ parseCalls' = parseCalls + 1
    /\ gpc' = "Validating"
    /\ UNCHANGED <<max_retries, attempt, raw_content, gresult, gexc, llmExc, genCalls, texts, validated>>
    /\ UNCHANGED <<apiAttempt, apiRequests>>
    /\ UNCHANGED otherThanGen

\* article = self._parse_article(raw_content, topic, language, tone, slug)
Parse ==
    /\ gpc = "Parsing"
    /\ LET a == _parse_article(raw_content, Topic, Language, Tone, Slug)
       IN  /\ article' = Some(a)
           /\ parsed' = Append(parsed, a)
    /\ parseCalls' = parseCalls + 1
    /\ gpc' = "Validating"
    /\ UNCHANGED <<max_retries, attempt, raw_content, gresult, gexc, llmExc, genCalls, texts, validated>>
    /\ UNCHANGED <<apiAttempt, apiRequests>>
    /\ UNCHANGED otherThanGen

\* errors = self._validate(article) and the rest of the loop body
Validate ==
    /\ gpc = "Validating"
    /\ LET errors == _validate(article[1])
       IN  /\ validated' = Append(validated, errors)
           /\ IF Accepts(errors)
              THEN /\ gresult' = article
                   /\ gpc' = "Accepted"
                   /\ UNCHANGED <<article, attempt, apiAttempt>>
              ELSE /\ article' = Some(AttachErrors(article[1], errors))
                   /\ gresult' = gresult
                   /\ IF AttemptsRemain
                      THEN attempt' = attempt + 1 /\ gpc' = "Generating" /\ apiAttempt' = 1
                      ELSE attempt' = attempt /\ gpc' = "AfterLoop" /\ apiAttempt' = apiAttempt
    /\ UNCHANGED <<max_retries, raw_content, gexc, llmExc, genCalls, texts, parseCalls>>
    /\ UNCHANGED <<parsed, apiRequests>>
    /\ UNCHANGED otherThanGen

\* `return article` after the loop; the name is unbound when the loop body never ran
ReturnAfterLoop ==
    /\ gpc = "AfterLoop"
    /\ IF article # None
       THEN gresult' = article /\ gexc' = gexc /\ gpc' = "RetryExhausted"
       ELSE gresult' = gresult /\ gexc' = "UnboundLocalError" /\ gpc' = "Raised"
    /\ UNCHANGED <<max_retries, attempt, raw_content, article, llmExc, genCalls, texts, parseCalls, validated>>
    /\ UNCHANGED <<parsed, apiAttempt, apiRequests>>
    /\ UNCHANGED otherThanGen

GenNext ==
    \/ \E n \in 0..MaxRetriesArg : GenStart(n)
    \/ RequestRetried
    \/ \E text \in RawTexts : LlmReturn(text)
    \/ \E e \in LlmErrors : LlmRaise(e)
    \/ Parse
    \/ Validate
    \/ ReturnAfterLoop

-----------------------------------------------------------------------------
(* ArticleScorer: src/src/scorer.py *)

\* Python's round(h / 2) for an integer h of half-points: ties go to the even integer
PyRoundHalves(h) ==
    IF h % 2 = 0 THEN h \div 2
    ELSE LET f == (h - 1) \div 2 IN IF f % 2 = 0 THEN f ELSE f + 1

Scored(score, warnings) == [exc |-> "", score |-> score, warnings |-> warnings]
Raises(e)               == [exc |-> e, score |-> 0, warnings |-> <<>>]

\* the eight checks of _score_structure, in dictionary order
StructureChecks(a) ==
    << <<"H1 title", a.title # "">>,
       <<"Meta description", a.meta_description # 0>>,
       <<"Introduction", a.intro_lines > 0>>,
       <<"Body H2 sections", a.h2_count >= MIN_H2_SECTIONS>>,
       <<"FAQ section", Len(a.faq) >= MIN_FAQ_QUESTIONS>>,
       <<"Key takeaways", Len(a.key_takeaways) >= MIN_TAKEAWAYS>>,
       <<"Sources", Len(a.sources) >= MIN_SOURCES>>,
       <<"Author block", a.author # "">> >>

\* 1 when the meta description is present and shorter than the minimum
MetaTooShort(a) == a.meta_description # 0 /\ a.meta_description < META_DESC_MIN
\* mutant: the scorer tests the nominal maximum, without the tolerance of 20
MetaTooLong_strict(a) == a.meta_description # 0 /\ ~MetaTooShort(a)
                         /\ a.meta_description > META_DESC_MAX
\* elif: present, not too short, and longer than the tolerant maximum
MetaTooLong(a)  == a.meta_description # 0 /\ ~MetaTooShort(a)
                   /\ a.meta_description > META_DESC_MAX + 20
IntroTooLong(a) == a.intro_lines > MAX_INTRO_LINES

\* the score before the final clamp, in half-points: points_per_check is 20 / 8 = 2.5
StructureHalves(a) ==
    LET checks == StructureChecks(a)
        passed == Cardinality({i \in 1..Len(checks) : checks[i][2]})
        pen    == (IF MetaTooShort(a) THEN 1 ELSE 0) + (IF MetaTooLong(a) THEN 1 ELSE 0)
                  + (IF IntroTooLong(a) THEN 1 ELSE 0)
    IN  ((2 * SCORE_WEIGHT) \div Len(checks)) * passed - 2 * pen

_score_structure(a) ==
    LET checks == StructureChecks(a)
        failed == SelectSeq(checks, LAMBDA c : ~c[2])
        w1 == [i \in 1..Len(failed) |-> "Structure: missing or insufficient"]
        w2 == IF MetaTooShort(a) THEN <<"Meta description too short">>
              ELSE IF MetaTooLong(a) THEN <<"Meta description too long">> ELSE <<>>
        w3 == IF IntroTooLong(a) THEN <<"Introduction too long">> ELSE <<>>
    IN  Scored(Max(0, Min(PyRoundHalves(StructureHalves(a)), SCORE_WEIGHT)), w1 \o w2 \o w3)

\* int(max_score * f) for f given in tenths
Tenths(t) == (SCORE_WEIGHT * t) \div 10

\* env carries what the text statistics of the content evaluate to: textstat
\* (TEXTSTAT_AVAILABLE), flesch, sentences (avg words per sentence, 0 = no sentence),
\* list_items, numbered_items, bold_terms, sections (avg words per section, -1 = no
\* section), entities
_score_readability(env) ==
    LET base ==
          IF env.textstat
          THEN IF env.flesch >= 50 THEN Scored(SCORE_WEIGHT, <<>>)
               ELSE IF env.flesch >= 30 THEN Scored(Tenths(8), <<>>)
               ELSE IF env.flesch >= 20
                    THEN Scored(Tenths(6), <<"Readability: content may be too complex">>)
                    ELSE Scored(Tenths(4), <<"Readability: content is very difficult to read">>)
          ELSE IF env.sentences > 0
               THEN IF env.sentences <= 20 THEN Scored(SCORE_WEIGHT, <<>>)
                    ELSE IF env.sentences <= 30 THEN Scored(Tenths(7), <<>>)
                    ELSE Scored(Tenths(5), <<"Readability: average sentence length">>)
               ELSE Scored(Tenths(5), <<>>)
    IN  IF env.list_items >= 10
        THEN Scored(Min(base.score + 2, SCORE_WEIGHT), base.warnings)
        ELSE base

\* the domain `https?://(?:www\.)?([^/]+)` captures
Domain(url) ==
    CASE url \in {"https://a.org/x", "https://www.a.org/y", "https://a.org/z"} -> "a.org"
      [] url = "https://b.org/y" -> "b.org"
      [] url = "https://c.org/z" -> "c.org"
      [] url = "https://d.org/w" -> "d.org"
      [] OTHER -> url

\* lines 152-176 of _score_sources: the tiers the code holds after the stray name
SourcesTiers(sources) ==
    LET count == Len(sources)
        base  == IF count >= 5 THEN Scored(Tenths(7), <<>>)
                 ELSE IF count >= MIN_SOURCES THEN Scored(Tenths(5), <<>>)
                 ELSE Scored(Tenths(3), <<"Sources: only few sources">>)
        domains == {Domain(sources[i]) : i \in 1..count}
        \* diversity_ratio >= 0.8 and >= 0.5, cross-multiplied
        bonus == IF 10 * Cardinality(domains) >= 8 * count THEN Scored(Tenths(3), <<>>)
                 ELSE IF 10 * Cardinality(domains) >= 5 * count THEN Scored(Tenths(2), <<>>)
                 ELSE Scored(Tenths(1), <<"Sources: low domain diversity">>)
    IN  Scored(Min(base.score + bonus.score, SCORE_WEIGHT), base.warnings \o bonus.warnings)

\* mutant: an article without sources gets the full sources score
_score_sources_zeroFull(sources) ==
    IF Len(sources) = 0 THEN Scored(SCORE_WEIGHT, <<>>)
    ELSE Raises("NameError")

\* line 151 is the bare name `t`, never defined: evaluating it raises NameError, so
\* every call with at least one source ends there
_score_sources(sources) ==
    IF Len(sources) = 0 THEN Scored(0, <<"Sources: no sources provided">>)
    ELSE Raises("NameError")

_score_llm_friendliness(env, faq, takeaways) ==
    LET f == IF Len(faq) >= 5 THEN Scored(5, <<>>)
             ELSE IF Len(faq) >= 3 THEN Scored(3, <<"LLM-friendliness: FAQ has only few questions">>)
             ELSE Scored(1, <<"LLM-friendliness: FAQ too short">>)
        total_lists == env.list_items + env.numbered_items
        l == IF total_lists >= 15 THEN Scored(4, <<>>)
             ELSE IF total_lists >= 8 THEN Scored(3, <<>>)
             ELSE IF total_lists >= 3 THEN Scored(2, <<>>)
             ELSE Scored(1, <<"LLM-friendliness: low use of lists/enumerations">>)
        b == IF env.bold_terms >= 10 THEN Scored(3, <<>>)
             ELSE IF env.bold_terms >= 5 THEN Scored(2, <<>>)
             ELSE Scored(1, <<"LLM-friendliness: few bold/highlighted terms">>)
        t == IF Len(takeaways) >= MIN_TAKEAWAYS THEN 3
             ELSE IF Len(takeaways) >= 3 THEN 2 ELSE 1
        h == IF env.sections >= 0
             THEN IF 50 <= env.sections /\ env.sections <= 300 THEN Scored(3, <<>>)
                  ELSE IF 30 <= env.sections /\ env.sections <= 500 THEN Scored(2, <<>>)
                  ELSE Scored(1, <<"LLM-friendliness: uneven section sizes">>)
             ELSE Scored(1, <<>>)
        e == IF env.entities >= 15 THEN 2 ELSE IF env.entities >= 5 THEN 1 ELSE 0
    IN  Scored(Min(f.score + l.score + b.score + t + h.score + e, SCORE_WEIGHT),
               f.warnings \o l.warnings \o b.warnings \o h.warnings)

\* the duplication tier of score(); similarity in units of 0.00001
DuplicationTier(similarity_score) ==
    IF similarity_score <= 30000 THEN Scored(SCORE_WEIGHT, <<>>)
    ELSE IF similarity_score <= 50000 THEN Scored(Tenths(8), <<>>)
    ELSE IF similarity_score <= 70000 THEN Scored(Tenths(6), <<>>)
    ELSE IF similarity_score <= 85000
         THEN Scored(Tenths(4), <<"Duplication risk: high similarity">>)
         ELSE Scored(Tenths(1), <<"Duplication risk: VERY HIGH similarity">>)

RECURSIVE SumOver(_, _)
SumOver(f, keys) ==
    IF keys = {} THEN 0
    ELSE LET k == CHOOSE x \in keys : TRUE IN f[k] + SumOver(f, keys \ {k})

\* ArticleScorer.score: a ScoreResult, or the exception a sub-score raised
score(a, env, similarity_score) ==
    LET st == _score_structure(a)
        rd == _score_readability(env)
        so == _score_sources(a.sources)
        lf == _score_llm_friendliness(env, a.faq, a.key_takeaways)
        du == DuplicationTier(similarity_score)
        details == [structure |-> st.score, readability |-> rd.score, sources |-> so.score,
                    llm_friendliness |-> lf.score, duplication |-> du.score]
    IN  IF so.exc # ""
        THEN [exc |-> so.exc, details |-> [structure |-> st.score, readability |-> rd.score],
              total |-> 0, warnings |-> st.warnings \o rd.warnings]
        ELSE [exc |-> "", details |-> details, total |-> SumOver(details, DOMAIN details),
              warnings |-> st.warnings \o rd.warnings \o so.warnings \o lf.warnings
                           \o du.warnings]

\* ---- the inputs score is applied to ----

ScoreArticles ==
    { [ topic |-> Topic, language |-> Language, tone |-> Tone, slug |-> Slug,
        title |-> t, meta_description |-> m, content_markdown |-> <<>>,
        faq |-> Repeat("question", f), sources |-> so, author |-> au,
        key_takeaways |-> Repeat("point", k), h2_count |-> h, intro_lines |-> il,
        validation_errors |-> <<>> ] :
      t \in {"", "Title A"}, m \in {0, 149, 150, 180, 181}, f \in {0, 3, 5},
      so \in { <<>>, <<"https://a.org/x">>,
               <<"https://a.org/x", "https://b.org/y", "https://c.org/z">>,
               <<"https://a.org/x", "https://www.a.org/y", "https://a.org/z",
                 "https://b.org/y", "https://d.org/w">> },
      au \in {"", "Jane Doe"}, k \in {0, 3, 5}, h \in {0, 3, 4}, il \in {0, 3, 6} }

Env(ts, fl, se, li, nu, bo, sc, en) ==
    [textstat |-> ts, flesch |-> fl, sentences |-> se, list_items |-> li,
     numbered_items |-> nu, bold_terms |-> bo, sections |-> sc, entities |-> en]

ScoreEnvs ==
    { Env(TRUE, 55, 0, 12, 5, 10, 100, 15),
      Env(TRUE, 35, 0, 5, 3, 5, 40, 5),
      Env(TRUE, 55, 0, 0, 0, 0, -1, 0),
      Env(TRUE, 25, 0, 0, 0, 0, -1, 0),
      Env(TRUE, 10, 0, 10, 0, 2, 600, 20),
      Env(FALSE, 0, 0, 0, 0, 0, -1, 0),
      Env(FALSE, 0, 25, 3, 0, 6, 20, 4),
      Env(FALSE, 0, 35, 20, 0, 12, 300, 30) }

ScoreSims == {0, 30001, 60000, 85000, 85001}

ScoreInit ==
    /\ sArticle \in ScoreArticles
    /\ sEnv \in ScoreEnvs
    /\ sSim \in ScoreSims
    /\ sResult = None

\* the idle state of the scorer in the other components' specifications
ScoreIdle ==
    /\ sArticle = <<>>
    /\ sEnv = <<>>
    /\ sSim = 0
    /\ sResult = None

\* scorer.score(article, similarity_score)
ScoreCall ==
    /\ sResult = None
    /\ sResult' = Some(score(sArticle, sEnv, sSim))
    /\ UNCHANGED <<sArticle, sSim, sEnv>>
    /\ UNCHANGED otherThanScore

ScoreNext == ScoreCall

-----------------------------------------------------------------------------
(* DeduplicationEngine: src/src/deduplication.py.  Similarities are integers *)
(* in units of 0.00001.                                                      *)

\* the largest batch analysed and the number of analyze calls followed
MaxBatch   == 3
MaxAnalyze == 2

\* the values cosine_similarity yields for a pair of documents
SimValues == {-20000, 30000, 85000, 85004, 96000}

\* the threshold argument of DeduplicationEngine(threshold=...): None or a number
ThresholdArgs == {None, Some(0), Some(50000), Some(85000), Some(95000)}

\* self.threshold = threshold or SIMILARITY_THRESHOLD: `or` takes the default for
\* None and for every falsy number (0, 0.0)
EngineThreshold(arg) ==
    IF arg = None THEN SIMILARITY_THRESHOLD
    ELSE IF arg[1] = 0 THEN SIMILARITY_THRESHOLD ELSE arg[1]

SlugOf(i) == <<"article", i>>

Batch(n) == [i \in 1..n |-> SlugOf(i)]

PairsOf(n) == {p \in (1..n) \X (1..n) : p[1] < p[2]}

\* cosine_similarity(embeddings): symmetric, 1.0 on the diagonal
MatrixOf(n, f) ==
    [p \in (1..n) \X (1..n) |->
        IF p[1] = p[2] THEN 100000
        ELSE IF p[1] < p[2] THEN f[p] ELSE f[<<p[2], p[1]>>]]

SimMatrices(n) == {MatrixOf(n, f) : f \in [PairsOf(n) -> SimValues]}

\* round(float(x), 4): the nearest multiple of 0.0001, a tie to the even one
Round4(x) ==
    LET r  == x % 10
        lo == x - r
    IN  IF r < 5 THEN lo
        ELSE IF r > 5 THEN lo + 10
        ELSE IF (lo \div 10) % 2 = 0 THEN lo ELSE lo + 10

\* mutant: a similarity equal to the threshold counts as a duplicate
IsDuplicate_atLeast(sim, t) == sim >= t

\* `if sim > self.threshold`
IsDuplicate(sim, t) == sim > t

\* mutant: the pair is written with the status of a pair below the threshold
PairStatus_ok(sim, t) == "OK"

\* the status written into a pair (the test is the one that guards the pair)
PairStatus(sim, t) == IF sim > t THEN "REJECTED" ELSE "OK"

\* mutant: the inner loop starts at the document itself
FirstPartner_self(i) == i

\* `for j in range(i + 1, n)`: the first document compared with document i
FirstPartner(i) == i + 1

RECURSIVE PairLoop(_, _, _, _, _, _)
\* the nested loops from position (i, j) on; acc = [max_sims, duplicate_pairs]
PairLoop(n, sim_matrix, t, i, j, acc) ==
    IF i > n THEN acc
    ELSE IF j > n THEN PairLoop(n, sim_matrix, t, i + 1, FirstPartner(i + 1), acc)
    ELSE LET sim == sim_matrix[<<i, j>>]
             ms  == [acc.max_sims EXCEPT ![i] = Max(@, sim), ![j] = Max(@, sim)]
             dp  == IF IsDuplicate(sim, t)
                    THEN Append(acc.duplicate_pairs,
                                [i |-> i, j |-> j,
                                 article_1 |-> SlugOf(i), article_2 |-> SlugOf(j),
                                 similarity |-> Round4(sim),
                                 status |-> PairStatus(sim, t)])
                    ELSE acc.duplicate_pairs
         IN  PairLoop(n, sim_matrix, t, i, j + 1, [max_sims |-> ms, duplicate_pairs |-> dp])

\* mutant: only the empty batch takes the shortcut
SmallBatch_emptyOnly(n) == n < 1

\* `if len(articles) < 2`
SmallBatch(n) == n < 2

\* the DeduplicationResult of analyze for n articles
AnalyzeResult(n, sim_matrix, t) ==
    IF SmallBatch(n)
    THEN [similarity_matrix |-> <<>>, duplicate_pairs |-> <<>>,
          max_similarities |-> Repeat(0, n), threshold |-> t]
    ELSE LET acc == PairLoop(n, sim_matrix, t, 1, FirstPartner(1),
                             [max_sims |-> Repeat(0, n), duplicate_pairs |-> <<>>])
         IN  [similarity_matrix |-> sim_matrix,
              duplicate_pairs |-> acc.duplicate_pairs,
              max_similarities |-> [k \in 1..n |-> Round4(acc.max_sims[k])],
              threshold |-> t]

DedupInit ==
    /\ thresholdArg \in ThresholdArgs
    /\ threshold = EngineThreshold(thresholdArg)
    /\ model_loaded = FALSE
    /\ modelLoads = 0
    /\ encodeCalls = 0
    /\ \E n \in 0..MaxBatch :
          /\ dArticles = Batch(n)
          /\ dSims \in SimMatrices(n)
    /\ dResult = None
    /\ analyzeCalls = 0

DedupIdle ==
    /\ thresholdArg = None
    /\ threshold = SIMILARITY_THRESHOLD
    /\ model_loaded = FALSE
    /\ modelLoads = 0
    /\ encodeCalls = 0
    /\ dArticles = <<>>
    /\ dSims = <<>>
    /\ dResult = None
    /\ analyzeCalls = 0

\* engine.analyze(articles): the short-circuit for fewer than two articles, else
\* _get_model() (which loads the model once), model.encode and the pair loops
Analyze ==
    /\ analyzeCalls < MaxAnalyze
    /\ IF SmallBatch(Len(dArticles))
       THEN UNCHANGED <<model_loaded, modelLoads, encodeCalls>>
       ELSE /\ model_loaded' = TRUE
            /\ modelLoads' = IF model_loaded THEN modelLoads ELSE modelLoads + 1
            /\ encodeCalls' = encodeCalls + 1
    /\ dResult' = Some(AnalyzeResult(Len(dArticles), dSims, threshold))
    /\ analyzeCalls' = analyzeCalls + 1
    /\ UNCHANGED <<thresholdArg, threshold, dArticles, dSims>>
    /\ UNCHANGED otherThanDedup

DedupNext == Analyze

-----------------------------------------------------------------------------
(* _get_model called by concurrent callers (threads inside analyze, line 62): *)
(* src/src/deduplication.py lines 14-25.  The function takes no lock, so a    *)
(* thread switch can fall between any two of its steps.                       *)

\* the number of concurrent callers followed
MaxCallers == 3

Callers == 1..MaxCallers

\* `_model = None`, nobody has called yet
LoadInit ==
    /\ _model = 0
    /\ constructed = 0
    /\ cpc = [c \in Callers |-> "idle"]
    /\ cnew = [c \in Callers |-> 0]
    /\ cgot = [c \in Callers |-> 0]

\* model = _get_model(): the caller enters the function
CallGetModel(c) ==
    /\ cpc[c] = "idle"
    /\ cpc' = [cpc EXCEPT ![c] = "test"]
    /\ UNCHANGED <<_model, constructed, cnew, cgot>>
    /\ UNCHANGED otherThanLoad

\* `if _model is None:`
TestNone(c) ==
    /\ cpc[c] = "test"
    /\ cpc' = [cpc EXCEPT ![c] = IF _model = 0 THEN "construct" ELSE "return"]
    /\ UNCHANGED <<_model, constructed, cnew, cgot>>
    /\ UNCHANGED otherThanLoad

\* the right-hand side of line 23: SentenceTransformer(EMBEDDING_MODEL) builds an instance
Construct(c) ==
    /\ cpc[c] = "construct"
    /\ constructed' = constructed + 1
    /\ cnew' = [cnew EXCEPT ![c] = constructed + 1]
    /\ cpc' = [cpc EXCEPT ![c] = "store"]
    /\ UNCHANGED <<_model, cgot>>
    /\ UNCHANGED otherThanLoad

\* the assignment of line 23: `_model = <the new instance>`
Store(c) ==
    /\ cpc[c] = "store"
    /\ _model' = cnew[c]
    /\ cpc' = [cpc EXCEPT ![c] = "return"]
    /\ UNCHANGED <<constructed, cnew, cgot>>
    /\ UNCHANGED otherThanLoad

\* `return _model`
Return(c) ==
    /\ cpc[c] = "return"
    /\ cgot' = [cgot EXCEPT ![c] = _model]
    /\ cpc' = [cpc EXCEPT ![c] = "done"]
    /\ UNCHANGED <<_model, constructed, cnew>>
    /\ UNCHANGED otherThanLoad

LoadNext ==
    \E c \in Callers :
        \/ CallGetModel(c)
        \/ TestNone(c)
        \/ Construct(c)
        \/ Store(c)
        \/ Return(c)

-----------------------------------------------------------------------------
(* The provider clients' generate_article: src/src/llm_client.py.  The three  *)
(* loops (OpenAIClient, also used by DeepSeekClient; AnthropicClient;         *)
(* GeminiClient) differ only in the exception classes the first except        *)
(* clause names.                                                              *)

Providers == {"openai", "anthropic", "gemini"}

\* the exception classes an API request of the provider's SDK ends with
ApiErrors(p) ==
    IF p = "gemini"
    THEN {"ResourceExhausted", "ServiceUnavailable", "DeadlineExceeded", "PermissionDenied"}
    ELSE {"RateLimitError", "APITimeoutError", "APIConnectionError", "AuthenticationError"}

\* the classes of the first except clause: the errors that are waited out and retried
RetriedErrors(p) ==
    IF p = "gemini"
    THEN {"ResourceExhausted", "ServiceUnavailable"}
    ELSE {"RateLimitError", "APITimeoutError", "APIConnectionError"}

Exhausted == "retries exhausted"

LlmInit ==
    /\ provider = ""
    /\ lpc = "idle"
    /\ lattempt = 0
    /\ outcomes = <<>>
    /\ waits = <<>>
    /\ lret = ""
    /\ lexc = ""

\* generate_article is called on a client of provider p; the loop starts at attempt 1
LlmCall(p) ==
    /\ lpc = "idle"
    /\ provider' = p
    /\ lattempt' = 1
    /\ lpc' = IF 1 <= MAX_RETRIES THEN "request" ELSE "afterloop"
    /\ UNCHANGED <<outcomes, waits, lret, lexc>>
    /\ UNCHANGED otherThanLlm

\* the API request succeeds: `return response...`
RequestOk ==
    /\ lpc = "request"
    /\ outcomes' = Append(outcomes, "ok")
    /\ lret' = "text"
    /\ lpc' = "returned"
    /\ UNCHANGED <<provider, lattempt, waits, lexc>>
    /\ UNCHANGED otherThanLlm

\* the API request raises e: the first except clause sleeps 2 ** attempt and lets the
\* loop go on, the second (`except Exception`) re-raises
RequestFails(e) ==
    /\ lpc = "request"
    /\ e \in ApiErrors(provider)
    /\ outcomes' = Append(outcomes, e)
    /\ IF e \in RetriedErrors(provider)
       THEN /\ waits' = Append(waits, 2 ^ lattempt)
            /\ IF lattempt < MAX_RETRIES
               THEN lattempt' = lattempt + 1 /\ lpc' = "request"
               ELSE lattempt' = lattempt /\ lpc' = "afterloop"
            /\ lexc' = lexc
       ELSE /\ lexc' = e
            /\ lpc' = "raised"
            /\ UNCHANGED <<waits, lattempt>>
    /\ UNCHANGED <<provider, lret>>
    /\ UNCHANGED otherThanLlm

\* `raise Exception("... retries exhausted")` after the loop
RaiseExhausted ==
    /\ lpc = "afterloop"
    /\ lexc' = Exhausted
    /\ lpc' = "raised"
    /\ UNCHANGED <<provider, lattempt, outcomes, waits, lret>>
    /\ UNCHANGED otherThanLlm

LlmNext ==
    \/ \E p \in Providers : LlmCall(p)
    \/ RequestOk
    \/ \E e \in UNION {ApiErrors(p) : p \in Providers} : RequestFails(e)
    \/ RaiseExhausted

-----------------------------------------------------------------------------
(* run_pipeline, step 1 (generation) and the check that follows it:         *)
(* src/generate.py                                                          *)

\* the largest number of topics loaded
MaxTopics == 4

\* max_workers = min(3, len(topics))
PoolLimit == 3

\* mutant: one worker per topic
MaxWorkers_perTopic(n) == n

MaxWorkers(n) == Min(PoolLimit, n)

\* what generator.generate does for a topic: returns an article or raises
Fates == {"ok", "Exception"}

\* mutant: the handler around one topic's generation is missing
Catches_nothing(e) == FALSE

\* `except Exception as e` around the generation of one topic
Catches(e) == e = "Exception"

\* `if parallel and len(topics) > 1`
UsesPool(par, n) == par /\ n > 1

\* what steps 2 to 4 of run_pipeline write
pipeTail == <<pSims, dedup_result, pAnalyzeCalls, scoreIndex, scoreCalls, scores, exported>>

\* the values cosine_similarity yields for a pair of generated articles
PipeSims == {30000, 85004}

PipeMatrices(n) == {MatrixOf(n, f) : f \in [PairsOf(n) -> PipeSims]}

\* article.sources of a generated article, as far as the scorer tells them apart
PipeSources == {<<>>, <<"https://a.org/x">>}

RECURSIVE Reverse(_)
Reverse(q) == IF q = <<>> THEN <<>> ELSE Append(Reverse(Tail(q)), Head(q))

\* mutant: the articles are collected last topic first
NotNone_reversed(res) == Reverse(SelectSeq(res, LAMBDA a : a # 0))

\* articles = [a for a in results if a is not None]
NotNone(res) == SelectSeq(res, LAMBDA a : a # 0)

PipeInit ==
    /\ pSims = <<>>
    /\ dedup_result = None
    /\ pAnalyzeCalls = 0
    /\ scoreIndex = 1
    /\ scoreCalls = <<>>
    /\ scores = <<>>
    /\ exported = <<>>
    /\ ppc = "start"
    /\ parallel \in BOOLEAN
    /\ topics \in 1..MaxTopics
    /\ fate \in [1..topics -> Fates]
    /\ pending = <<>>
    /\ running = {}
    /\ finished = {}
    /\ results = <<>>
    /\ seqIndex = 1
    /\ articles = <<>>
    /\ errorLog = {}
    /\ attempted = {}
    /\ escaped = ""

PipeIdle ==
    /\ pSims = <<>>
    /\ dedup_result = None
    /\ pAnalyzeCalls = 0
    /\ scoreIndex = 1
    /\ scoreCalls = <<>>
    /\ scores = <<>>
    /\ exported = <<>>
    /\ ppc = "idle"
    /\ parallel = FALSE
    /\ topics = 0
    /\ fate = <<>>
    /\ pending = <<>>
    /\ running = {}
    /\ finished = {}
    /\ results = <<>>
    /\ seqIndex = 1
    /\ articles = <<>>
    /\ errorLog = {}
    /\ attempted = {}
    /\ escaped = ""

\* the branch at `if parallel and len(topics) > 1`
PipeStart ==
    /\ ppc = "start"
    /\ ppc' = IF UsesPool(parallel, topics) THEN "submit" ELSE "sequential"
    /\ UNCHANGED <<parallel, topics, fate, pending, running, finished, results, seqIndex,
                   articles, errorLog, attempted, escaped>>
    /\ UNCHANGED pipeTail
    /\ UNCHANGED otherThanPipe

\* one iteration of the submit loop: executor.submit(generator.generate, ...); after the
\* last one `results = [None] * len(topics)` and the as_completed loop begins
Submit ==
    /\ ppc = "submit"
    /\ pending' = Append(pending, seqIndex)
    /\ seqIndex' = seqIndex + 1
    /\ IF seqIndex = topics
       THEN ppc' = "collect" /\ results' = Repeat(0, topics)
       ELSE ppc' = ppc /\ results' = results
    /\ UNCHANGED <<parallel, topics, fate, running, finished, articles, errorLog,
                   attempted, escaped>>
    /\ UNCHANGED pipeTail
    /\ UNCHANGED otherThanPipe

\* a pool thread takes the oldest queued call; the pool has max_workers threads
WorkerStart ==
    /\ ppc \in {"submit", "collect"}
    /\ pending # <<>>
    /\ Cardinality(running) < MaxWorkers(topics)
    /\ running' = running \cup {Head(pending)}
    /\ attempted' = attempted \cup {Head(pending)}
    /\ pending' = Tail(pending)
    /\ UNCHANGED <<ppc, parallel, topics, fate, finished, results, seqIndex, articles,
                   errorLog, escaped>>
    /\ UNCHANGED pipeTail
    /\ UNCHANGED otherThanPipe

\* generator.generate for topic i ends in its thread: the future is done
WorkerFinish(i) ==
    /\ ppc \in {"submit", "collect"}
    /\ i \in running
    /\ running' = running \ {i}
    /\ finished' = finished \cup {i}
    /\ UNCHANGED <<ppc, parallel, topics, fate, pending, results, seqIndex, articles,
                   errorLog, attempted, escaped>>
    /\ UNCHANGED pipeTail
    /\ UNCHANGED otherThanPipe

\* one iteration of `for future in as_completed(futures)`: future.result() in a try
Collect(i) ==
    /\ ppc = "collect"
    /\ i \in finished
    /\ finished' = finished \ {i}
    /\ IF fate[i] = "ok"
       THEN results' = [results EXCEPT ![i] = i]
            /\ UNCHANGED <<errorLog, escaped, ppc>>
       ELSE IF Catches(fate[i])
            THEN errorLog' = errorLog \cup {i}
                 /\ UNCHANGED <<results, escaped, ppc>>
            ELSE escaped' = fate[i] /\ ppc' = "aborted"
                 /\ UNCHANGED <<results, errorLog>>
    /\ UNCHANGED <<parallel, topics, fate, pending, running, seqIndex, articles, attempted>>
    /\ UNCHANGED pipeTail
    /\ UNCHANGED otherThanPipe

\* mutant: the results are taken without waiting for the futures still outstanding
Join_early ==
    /\ ppc = "collect"
    /\ articles' = NotNone(results)
    /\ ppc' = "check"
    /\ UNCHANGED <<parallel, topics, fate, pending, running, finished, results, seqIndex,
                   errorLog, attempted, escaped>>
    /\ UNCHANGED pipeTail
    /\ UNCHANGED otherThanPipe

\* as_completed is exhausted: every future was yielded
Join ==
    /\ ppc = "collect"
    /\ pending = <<>> /\ running = {} /\ finished = {}
    /\ articles' = NotNone(results)
    /\ ppc' = "check"
    /\ UNCHANGED <<parallel, topics, fate, pending, running, finished, results, seqIndex,
                   errorLog, attempted, escaped>>
    /\ UNCHANGED pipeTail
    /\ UNCHANGED otherThanPipe

\* one iteration of the sequential loop: generator.generate in a try
SeqGenerate ==
    /\ ppc = "sequential"
    /\ attempted' = attempted \cup {seqIndex}
    /\ seqIndex' = seqIndex + 1
    /\ IF fate[seqIndex] = "ok"
       THEN articles' = Append(articles, seqIndex)
            /\ UNCHANGED <<errorLog, escaped>>
            /\ ppc' = IF seqIndex = topics THEN "check" ELSE ppc
       ELSE IF Catches(fate[seqIndex])
            THEN errorLog' = errorLog \cup {seqIndex}
                 /\ UNCHANGED <<articles, escaped>>
                 /\ ppc' = IF seqIndex = topics THEN "check" ELSE ppc
            ELSE escaped' = fate[seqIndex] /\ ppc' = "aborted"
                 /\ UNCHANGED <<articles, errorLog>>
    /\ UNCHANGED <<parallel, topics, fate, pending, running, finished, results>>
    /\ UNCHANGED pipeTail
    /\ UNCHANGED otherThanPipe

\* `if not articles: ... sys.exit(1)`, else on to the deduplication step
CheckArticles ==
    /\ ppc = "check"
    /\ IF articles = <<>>
       THEN ppc' = "exit" /\ escaped' = "SystemExit"
       ELSE ppc' = "dedup" /\ escaped' = escaped
    /\ UNCHANGED <<parallel, topics, fate, pending, running, finished, results, seqIndex,
                   articles, errorLog, attempted>>
    /\ UNCHANGED pipeTail
    /\ UNCHANGED otherThanPipe

\* step 2: dedup_result = dedup_engine.analyze(articles), the engine built with the
\* default threshold
PipeAnalyze ==
    /\ ppc = "dedup"
    /\ \E m \in PipeMatrices(Len(articles)) :
          /\ pSims' = m
          /\ dedup_result' = Some(AnalyzeResult(Len(articles), m, EngineThreshold(None)))
    /\ pAnalyzeCalls' = pAnalyzeCalls + 1
    /\ ppc' = "scoring"
    /\ UNCHANGED <<parallel, topics, fate, pending, running, finished, results, seqIndex,
                   articles, errorLog, attempted, escaped, scoreIndex, scoreCalls, scores,
                   exported>>
    /\ UNCHANGED otherThanPipe

\* step 3, one iteration of the scoring loop: max_sim is looked up by position and
\* scorer.score is called outside any try, so what it raises ends run_pipeline
ScoreOne(sources) ==
    /\ ppc = "scoring"
    /\ scoreIndex <= Len(articles)
    /\ LET i       == scoreIndex
           max_sim == IF i <= Len(dedup_result[1].max_similarities)
                      THEN dedup_result[1].max_similarities[i] ELSE 0
           so      == _score_sources(sources)
           du      == DuplicationTier(max_sim)
       IN  /\ scoreCalls' = Append(scoreCalls, [article |-> articles[i], similarity_score |-> max_sim])
           /\ IF so.exc # ""
              THEN /\ escaped' = so.exc
                   /\ ppc' = "crashed"
                   /\ UNCHANGED <<scores, scoreIndex>>
              ELSE /\ scores' = Append(scores, [article |-> articles[i],
                                                duplication |-> du.score,
                                                warnings |-> du.warnings])
                   /\ scoreIndex' = scoreIndex + 1
                   /\ UNCHANGED <<escaped, ppc>>
    /\ UNCHANGED <<parallel, topics, fate, pending, running, finished, results, seqIndex,
                   articles, errorLog, attempted, pSims, dedup_result, pAnalyzeCalls,
                   exported>>
    /\ UNCHANGED otherThanPipe

\* step 4: the export loop over zip(articles, scores) and the summary
Export ==
    /\ ppc = "scoring"
    /\ scoreIndex > Len(articles)
    /\ exported' = articles
    /\ ppc' = "done"
    /\ UNCHANGED <<parallel, topics, fate, pending, running, finished, results, seqIndex,
                   articles, errorLog, attempted, escaped, pSims, dedup_result,
                   pAnalyzeCalls, scoreIndex, scoreCalls, scores>>
    /\ UNCHANGED otherThanPipe

PipeNext ==
    \/ PipeStart
    \/ Submit
    \/ WorkerStart
    \/ \E i \in 1..topics : WorkerFinish(i)
    \/ \E i \in 1..topics : Collect(i)
    \/ Join
    \/ SeqGenerate
    \/ CheckArticles
    \/ PipeAnalyze
    \/ \E sources \in PipeSources : ScoreOne(sources)
    \/ Export

-----------------------------------------------------------------------------
(* Properties of ArticleGenerator.generate, checked under SpecGen *)

GenDone == gpc \in {"Accepted", "RetryExhausted", "Raised"}

\* every validation so far reported at least one violation
AllInvalid == \A i \in 1..Len(validated) : validated[i] # <<>>

\* the article a text parses to
Parsed(text) == _parse_article(text, Topic, Language, Tone, Slug)

\* C1: retry termination.  With max_retries = N >= 1, a Generator that returns text and
\* a violation on every attempt, generate never starts a call beyond the N-th, and it
\* ends only after exactly N calls, returning an article with non-empty
\* validation_errors.
C1_RetryTermination ==
    (max_retries >= 1 /\ AllInvalid /\ llmExc = "") =>
        /\ genCalls <= max_retries
        /\ (gpc = "Generating" => genCalls < max_retries)
        /\ (GenDone =>
              /\ gpc = "RetryExhausted"
              /\ genCalls = max_retries
              /\ gresult # None
              /\ gresult[1].validation_errors # <<>>)

C1_Witness ==
    /\ gpc = "RetryExhausted" /\ max_retries = MaxRetriesArg /\ genCalls = MaxRetriesArg
    /\ AllInvalid

\* C2: immediate acceptance.  Once an attempt validates with no violation, generate has
\* returned that attempt's article with empty validation_errors and no Generator call
\* follows; a valid first attempt means exactly one call.
C2_ImmediateAcceptance ==
    (validated # <<>> /\ Last(validated) = <<>>) =>
        /\ gpc = "Accepted"
        /\ gresult = Some(Parsed(Last(texts)))
        /\ gresult[1].validation_errors = <<>>
        /\ genCalls = Len(validated)
        /\ (validated[1] = <<>> => genCalls = 1)

C2_Witness ==
    /\ gpc = "Accepted" /\ genCalls = 1 /\ max_retries = MaxRetriesArg
    /\ gresult # None

\* C3 (as claimed): whenever the Generator returns text, generate ends by returning an
\* ArticleData, for every max_retries including 0.
C3_AlwaysReturns ==
    (GenDone /\ llmExc = "") => (gexc = "" /\ gresult # None)

\* C4: when all attempts fail validation the returned article is the one parsed from the
\* final Generator output, carrying exactly the final attempt's violations.
C4_LastArticleReturned ==
    gpc = "RetryExhausted" =>
        /\ gresult = Some([Parsed(Last(texts)) EXCEPT !.validation_errors = Last(validated)])
        /\ Last(validated) = _validate(Parsed(Last(texts)))
        /\ Len(texts) = max_retries

C4_Witness ==
    /\ gpc = "RetryExhausted"
    /\ Len(texts) >= 2
    /\ texts[1] # Last(texts)
    /\ validated[1] # Last(validated)

\* C5: a Generator failure is not retried.  Once llm.generate_article has raised,
\* generate has ended with that same exception, the raising call is the last Generator
\* call, and that attempt was neither parsed nor validated.
C5_GeneratorFailurePropagates ==
    llmExc # "" =>
        /\ gpc = "Raised"
        /\ gexc = llmExc
        /\ gresult = None
        /\ genCalls = Len(texts) + 1
        /\ parseCalls = Len(texts)
        /\ Len(validated) = Len(texts)

C5_Witness ==
    /\ llmExc # "" /\ gpc = "Raised"
    /\ genCalls = 2 /\ attempt < max_retries

-----------------------------------------------------------------------------
(* Properties of run_pipeline's generation step, checked under SpecPipe *)

GenerationOver == ppc \in {"check", "exit", "dedup", "scoring", "crashed", "done"}

Failed == {i \in 1..topics : fate[i] # "ok"}

\* the topics whose generation succeeds, in input order
Successes == SelectSeq([i \in 1..topics |-> i], LAMBDA i : fate[i] = "ok")

\* what the generation step leaves, in both modes: every topic was attempted, every
\* successful article is kept (in input order) and every failure was logged
BatchIsolated ==
    /\ ppc # "aborted"
    /\ GenerationOver =>
          /\ attempted = 1..topics
          /\ articles = Successes
          /\ errorLog = Failed

\* C6 (as claimed): batch isolation, and the failures are handed back rather than
\* thrown: run_pipeline never ends with an exception because topics failed.
C6_FailuresNeverThrown ==
    /\ BatchIsolated
    /\ escaped \notin Fates \cup {"SystemExit"}

\* C6 (amended): batch isolation holds in both modes: no topic's exception leaves the
\* generation loops, every topic is attempted, every successful article is kept and every
\* failure is logged; the only exception the failed topics lead to is the SystemExit of
\* sys.exit(1), raised after every topic was attempted and none succeeded.
C6_BatchIsolation ==
    /\ BatchIsolated
    /\ escaped \notin Fates
    /\ escaped = "SystemExit" =>
          /\ ppc = "exit"
          /\ attempted = 1..topics
          /\ Failed = 1..topics
    /\ (GenerationOver /\ ppc # "check" /\ Failed = 1..topics) => escaped = "SystemExit"

C6_Witness ==
    /\ ppc = "dedup" /\ parallel
    /\ 1 \in errorLog
    /\ Len(articles) >= 2

\* how many times topic i sits in the executor: queued, running, done but not yet
\* consumed, or consumed by the as_completed loop
TimesSubmitted(i) ==
    Cardinality({k \in 1..Len(pending) : pending[k] = i})
    + (IF i \in running THEN 1 ELSE 0)
    + (IF i \in finished THEN 1 ELSE 0)
    + (IF i \in errorLog \/ (i <= Len(results) /\ results[i] # 0) THEN 1 ELSE 0)

\* C23: in parallel mode every topic the submit loop has passed was submitted exactly
\* once (none before the loop reaches it), and never more than min(3, number of
\* topics) generations are in progress.
C23_BoundedPool ==
    (UsesPool(parallel, topics) /\ ppc # "start") =>
        /\ Cardinality(running) <= Min(3, topics)
        /\ \A i \in 1..topics :
              TimesSubmitted(i) = (IF i < seqIndex THEN 1 ELSE 0)
        /\ ppc # "submit" => seqIndex = topics + 1

C23_Witness ==
    /\ parallel /\ topics = MaxTopics
    /\ ppc = "collect"
    /\ Cardinality(running) = 3
    /\ pending # <<>>
    /\ \A i \in 1..topics : TimesSubmitted(i) = 1

\* no generation is queued, running or waiting to be consumed, and all were started
GenerationsFinished ==
    /\ pending = <<>> /\ running = {} /\ finished = {}
    /\ attempted = 1..topics

SetMax(S) == CHOOSE x \in S : \A y \in S : y <= x

\* the max similarity analyze reports for the article at position k of the batch
\* whose cosine similarities are pSims
ReportedMax(k) ==
    Round4(SetMax({0} \cup {pSims[<<k, j>>] : j \in (1..Len(articles)) \ {k}}))

\* C27: once generation is over the articles list holds the successful topics in input
\* order; max_similarities has one entry per article, entry k computed from the
\* similarities of the article at position k; and every scorer.score call got the
\* article at its position together with that article's own entry.
C27_IndexAlignment ==
    /\ GenerationOver => articles = Successes
    /\ dedup_result # None =>
          /\ Len(dedup_result[1].max_similarities) = Len(articles)
          /\ \A k \in 1..Len(articles) :
                dedup_result[1].max_similarities[k] = ReportedMax(k)
    /\ \A k \in 1..Len(scoreCalls) :
          /\ scoreCalls[k].article = articles[k]
          /\ scoreCalls[k].similarity_score = ReportedMax(k)

C27_Witness ==
    /\ ppc = "done" /\ parallel /\ topics = MaxTopics
    /\ fate[1] # "ok"
    /\ articles = <<2, 3, 4>>
    /\ pSims[<<2, 3>>] = 85004 /\ pSims[<<1, 2>>] = 30000 /\ pSims[<<1, 3>>] = 30000
    /\ scoreCalls = << [article |-> 2, similarity_score |-> 30000],
                       [article |-> 3, similarity_score |-> 85000],
                       [article |-> 4, similarity_score |-> 85000] >>

\* the article at position k of the batch is a member of an emitted duplicate pair
InPair(k) ==
    \E x \in 1..Len(dedup_result[1].duplicate_pairs) :
        k \in {dedup_result[1].duplicate_pairs[x].i, dedup_result[1].duplicate_pairs[x].j}

\* C30 (as claimed): with the default threshold, an article in an emitted duplicate pair
\* has a reported max similarity above the threshold and, once scored, the duplication
\* sub-score 2 with the VERY HIGH similarity warning; an article in no pair is scored
\* with a duplication sub-score of at least 8.
C30_PairsMatchScores ==
    dedup_result # None =>
        /\ \A k \in 1..Len(articles) :
              InPair(k) => dedup_result[1].max_similarities[k] > SIMILARITY_THRESHOLD
        /\ \A k \in 1..Len(scores) :
              /\ InPair(k) =>
                    /\ scores[k].duplication = 2
                    /\ InSeq("Duplication risk: VERY HIGH similarity", scores[k].warnings)
              /\ ~InPair(k) => scores[k].duplication >= 8

-----------------------------------------------------------------------------
(* Properties of ArticleScorer.score, checked under SpecScore *)

Criteria == {"structure", "readability", "sources", "llm_friendliness", "duplication"}

\* C7 (as claimed): for every article and max similarity, score yields each of the five
\* sub-scores in [0, 20] and a total in [0, 100].
C7_ScoreBound ==
    sResult # None =>
        /\ sResult[1].exc = ""
        /\ \A c \in Criteria : sResult[1].details[c] \in 0..SCORE_WEIGHT
        /\ sResult[1].total \in 0..(5 * SCORE_WEIGHT)

\* C8 (as claimed): for every article, sources or not, score returns a result whose
\* details hold exactly the five criteria and whose total is their sum.
C8_FiveCriteriaSum ==
    sResult # None =>
        /\ sResult[1].exc = ""
        /\ DOMAIN sResult[1].details = Criteria
        /\ sResult[1].total = SumOver(sResult[1].details, Criteria)

-----------------------------------------------------------------------------
(* Properties of DeduplicationEngine.analyze, checked under SpecDedup *)

Analyzed == dResult # None

\* the document pairs (i, j) the result lists
EmittedPairs ==
    {<<dResult[1].duplicate_pairs[k].i, dResult[1].duplicate_pairs[k].j>> :
        k \in 1..Len(dResult[1].duplicate_pairs)}

\* C9: for a batch of n >= 2, a pair (i, j), i < j, is emitted iff sim(i, j) is strictly
\* above the threshold, and no pair is emitted twice.
C9_DuplicatePairs ==
    (Analyzed /\ Len(dArticles) >= 2) =>
        /\ \A p \in PairsOf(Len(dArticles)) :
              p \in EmittedPairs <=> dSims[p] > threshold
        /\ EmittedPairs \subseteq PairsOf(Len(dArticles))
        /\ Cardinality(EmittedPairs) = Len(dResult[1].duplicate_pairs)

C9_Witness ==
    /\ Analyzed /\ Len(dArticles) = MaxBatch
    /\ dSims[<<1, 2>>] = threshold
    /\ dSims[<<1, 3>>] > threshold
    /\ EmittedPairs = {<<1, 3>>}

\* C10: for a batch of 0 or 1 articles analyze returns no duplicate pair and one 0.0 per
\* article, and the embedding model is neither loaded nor invoked.
C10_SmallBatch ==
    (Analyzed /\ Len(dArticles) < 2) =>
        /\ dResult[1].duplicate_pairs = <<>>
        /\ dResult[1].max_similarities = [k \in 1..Len(dArticles) |-> 0]
        /\ ~model_loaded
        /\ modelLoads = 0
        /\ encodeCalls = 0

C10_Witness ==
    /\ Analyzed /\ Len(dArticles) = 1
    /\ dResult[1].max_similarities = <<0>>
    /\ analyzeCalls = MaxAnalyze

\* the similarities of document i with the other documents of the batch
OtherSims(i) == {dSims[<<i, j>>] : j \in (1..Len(dArticles)) \ {i}}

\* C11: the returned similarity matrix is symmetric, no emitted pair has the same
\* document on both sides, and the diagonal entry of a document (1.0) never shows up
\* as its max similarity: that value is 0.0 or the similarity with another document.
C11_SymmetryNoSelf ==
    (Analyzed /\ Len(dArticles) >= 2) =>
        LET n == Len(dArticles)
            r == dResult[1]
        IN  /\ \A i, j \in 1..n :
                  r.similarity_matrix[<<i, j>>] = r.similarity_matrix[<<j, i>>]
            /\ \A k \in 1..Len(r.duplicate_pairs) :
                  /\ r.duplicate_pairs[k].i # r.duplicate_pairs[k].j
                  /\ r.duplicate_pairs[k].article_1 # r.duplicate_pairs[k].article_2
            /\ \A i \in 1..n :
                  r.max_similarities[i] \in {0} \cup {Round4(x) : x \in OtherSims(i)}

C11_Witness ==
    /\ Analyzed /\ Len(dArticles) = MaxBatch
    /\ dResult[1].similarity_matrix[<<1, 1>>] = 100000
    /\ dResult[1].similarity_matrix[<<3, 1>>] = 96000
    /\ dResult[1].max_similarities[1] = 96000
    /\ <<1, 3>> \in EmittedPairs

\* C12 (as claimed): every pair analyze emits carries the status "flagged".
C12_StatusFlagged ==
    Analyzed =>
        \A k \in 1..Len(dResult[1].duplicate_pairs) :
            dResult[1].duplicate_pairs[k].status = "flagged"

\* C12: every pair analyze emits has a similarity strictly above the threshold and
\* carries the status "REJECTED".
C12_StatusRejected ==
    Analyzed =>
        \A k \in 1..Len(dResult[1].duplicate_pairs) :
            LET pair == dResult[1].duplicate_pairs[k]
            IN  /\ dSims[<<pair.i, pair.j>>] > threshold
                /\ pair.status = "REJECTED"

C12_Witness ==
    /\ Analyzed /\ Len(dArticles) = 2
    /\ threshold = SIMILARITY_THRESHOLD
    /\ dSims[<<1, 2>>] = 96000
    /\ Len(dResult[1].duplicate_pairs) = 1
    /\ dResult[1].duplicate_pairs[1].status = "REJECTED"

-----------------------------------------------------------------------------
(* Further properties of ArticleGenerator, checked under SpecGen *)

\* the fields a parse fills in
SameParse(a, b) ==
    /\ a.title = b.title
    /\ a.meta_description = b.meta_description
    /\ a.faq = b.faq
    /\ a.sources = b.sources
    /\ a.author = b.author
    /\ a.key_takeaways = b.key_takeaways
    /\ a.h2_count = b.h2_count
    /\ a.intro_lines = b.intro_lines

ViolationKinds ==
    <<"Missing H1 title", "Missing meta description", "Meta description length",
      "H2 body sections", "FAQ questions", "sources", "takeaways">>

\* the check behind a violation fails for article a
FailedCheck(a, kind) ==
    CASE kind = "Missing H1 title" -> a.title = ""
      [] kind = "Missing meta description" -> a.meta_description = 0
      [] kind = "Meta description length" ->
            a.meta_description # 0 /\ (a.meta_description < 150 \/ a.meta_description > 160 + 20)
      [] kind = "H2 body sections" -> a.h2_count < 4
      [] kind = "FAQ questions" -> Len(a.faq) < 5
      [] kind = "sources" -> Len(a.sources) < 3
      [] kind = "takeaways" -> Len(a.key_takeaways) < 5

KindsOf(errors) == [i \in 1..Len(errors) |-> errors[i].e]

\* C18: every report _validate returned holds exactly one violation per failed check,
\* in the fixed order title, missing meta, meta length, body sections, FAQ, sources,
\* takeaways; missing meta and meta length never come together; and the report is
\* empty iff all checks pass.
C18_ValidationReportShape ==
    \A k \in 1..Len(validated) :
        LET a     == parsed[k]
            kinds == KindsOf(validated[k])
        IN  /\ kinds = SelectSeq(ViolationKinds, LAMBDA kind : FailedCheck(a, kind))
            /\ ~(\E i, j \in 1..Len(kinds) : /\ kinds[i] = "Missing meta description"
                                            /\ kinds[j] = "Meta description length")
            /\ (validated[k] = <<>>) <=> (\A i \in 1..Len(ViolationKinds) :
                                            ~FailedCheck(a, ViolationKinds[i]))

C18_Witness ==
    /\ Len(validated) = 3
    /\ texts = <<EmptyText, EdgeText, ValidTextB>>
    /\ KindsOf(validated[1]) = <<"Missing H1 title", "Missing meta description",
                                 "H2 body sections", "FAQ questions", "sources", "takeaways">>
    /\ KindsOf(validated[2]) = <<"Meta description length", "H2 body sections",
                                 "FAQ questions", "sources", "takeaways">>
    /\ validated[3] = <<>>

\* the questions of the lines of one FAQ form, in document order
Questions(text, kind) == [i \in 1..Len(OfKind(text, kind)) |-> OfKind(text, kind)[i].s]

\* C25: the FAQ of every parsed article is the list of matches of one pattern: the
\* primary (bold Q:/A:) matches in document order, and none of the numbered matches,
\* whenever the primary pattern matches at all; the numbered matches only when the
\* primary pattern matches nothing.
C25_FaqPrecedence ==
    \A k \in 1..Len(parsed) :
        LET faq      == parsed[k].faq
            primary  == Questions(texts[k], "qa")
            numbered == Questions(texts[k], "nqa")
        IN  /\ primary # <<>> => faq = primary /\ Len(faq) = Len(primary)
            /\ primary = <<>> => faq = numbered
            /\ faq # primary => primary = <<>>

\* a text with both forms was parsed (its two primary questions only), then a text
\* with numbered questions only
C25_Witness ==
    /\ Len(parsed) = 2
    /\ texts = <<MixedFaqText, ValidTextB>>
    /\ Len(Questions(texts[1], "nqa")) = 4
    /\ parsed[1].faq = <<"question", "question">>
    /\ parsed[2].faq = Repeat("question", 5)

\* position of the first URL of the text that is u once stripped
RECURSIVE FirstOccurrence(_, _, _)
FirstOccurrence(urls, u, i) ==
    IF i > Len(urls) THEN 0
    ELSE IF urls[i].s = u THEN i ELSE FirstOccurrence(urls, u, i + 1)

\* C26: the sources of every parsed article have no repeated entry; every entry is a
\* URL of the text with its trailing punctuation removed; every URL of the text is
\* there; the entries are ordered by the first occurrence of each stripped URL; and
\* de-duplicating the result again leaves it unchanged.
C26_SourceExtraction ==
    \A k \in 1..Len(parsed) :
        LET src  == parsed[k].sources
            urls == OfKind(texts[k], "url")
        IN  /\ \A i, j \in 1..Len(src) : src[i] = src[j] => i = j
            /\ \A i \in 1..Len(src) : \E j \in 1..Len(urls) : src[i] = urls[j].s
            /\ \A j \in 1..Len(urls) : \E i \in 1..Len(src) : src[i] = urls[j].s
            /\ \A i, j \in 1..Len(src) :
                  i < j => FirstOccurrence(urls, src[i], 1) < FirstOccurrence(urls, src[j], 1)
            /\ UniqueUrls([i \in 1..Len(src) |-> Ln("url", src[i], 0)], {}, 1) = src

\* a text whose four URLs include one twice, with and without trailing punctuation,
\* was parsed
C26_Witness ==
    /\ Len(parsed) >= 1
    /\ texts[1] = ValidTextA
    /\ Len(OfKind(texts[1], "url")) = 4
    /\ \E i, j \in 1..4 : /\ OfKind(texts[1], "url")[i].s = OfKind(texts[1], "url")[j].s
                          /\ OfKind(texts[1], "url")[i].n # OfKind(texts[1], "url")[j].n
    /\ parsed[1].sources = <<"https://a.org/x", "https://b.org/y", "https://c.org/z">>

\* C29: a generate call with max_retries = N has issued at most N x MAX_RETRIES
\* provider API requests, and at most MAX_RETRIES in each Generator invocation; a
\* Generator invocation after the first is started only once the text of the one
\* before it failed validation; and once an invocation has raised (its own retries
\* exhausted, or a fatal error) generate has ended with that error, that invocation
\* being the last.
C29_RequestBound ==
    /\ apiRequests <= max_retries * MAX_RETRIES
    /\ apiRequests <= genCalls * MAX_RETRIES + (IF gpc = "Generating" THEN apiAttempt - 1 ELSE 0)
    /\ apiAttempt <= MAX_RETRIES + 1
    /\ LET started == IF gpc = "Generating" THEN genCalls + 1 ELSE genCalls
       IN  /\ started <= max_retries
           /\ \A k \in 1..(started - 1) :
                 k <= Len(validated) /\ validated[k] # <<>> /\ k <= Len(texts)
    /\ llmExc # "" =>
          /\ gpc = "Raised" /\ gexc = llmExc
          /\ genCalls = Len(texts) + 1
          /\ llmExc = "retries exhausted" => apiAttempt = MAX_RETRIES + 1

\* with max_retries = 2, two invocations of MAX_RETRIES requests each returned text
\* that failed validation: the bound is reached
C29_Witness ==
    /\ gpc = "RetryExhausted"
    /\ max_retries = 2
    /\ genCalls = 2
    /\ apiRequests = 2 * MAX_RETRIES

-----------------------------------------------------------------------------
(* Further properties of ArticleScorer.score, checked under SpecScore *)

\* ArticleData(topic, language, tone, slug) with every other field at its default
EmptyArticle(a) ==
    /\ a.title = "" /\ a.meta_description = 0 /\ a.content_markdown = <<>>
    /\ a.faq = <<>> /\ a.sources = <<>> /\ a.author = "" /\ a.key_takeaways = <<>>
    /\ a.h2_count = 0 /\ a.intro_lines = 0

\* what the text statistics of the empty string are: no sentence, no list item, no
\* bold term, no section, no entity (the Flesch value is whatever textstat reports)
EmptyContent(env) ==
    /\ env.sentences = 0 /\ env.list_items = 0 /\ env.numbered_items = 0
    /\ env.bold_terms = 0 /\ env.sections = -1 /\ env.entities = 0

\* C13: the entirely empty article, scored with max similarity 0, gets a result (no
\* exception) whose total is below 50, with or without textstat.
C13_EmptyBelow50 ==
    (sResult # None /\ EmptyArticle(sArticle) /\ EmptyContent(sEnv) /\ sSim = 0) =>
        /\ sResult[1].exc = ""
        /\ sResult[1].total < 50

C13_Witness ==
    /\ sResult # None /\ EmptyArticle(sArticle) /\ EmptyContent(sEnv) /\ sSim = 0
    /\ sEnv.textstat /\ sEnv.flesch >= 50
    /\ sResult[1].details = [structure |-> 0, readability |-> 20, sources |-> 0,
                             llm_friendliness |-> 5, duplication |-> 20]
    /\ sResult[1].total = 45

\* int(round(score)) of _score_structure, before max(0, min(., max_score))
StructureBeforeClamp(a) == PyRoundHalves(StructureHalves(a))

\* C19 (as claimed): in the article scored, each penalty that applies (meta description
\* shorter than 150, longer than 180, introduction longer than 5 lines) lowers the
\* structure score before the clamp by exactly 1 against the same article without that
\* condition, and a too-short meta description adds the "too short" warning.
C19_PenaltyExactlyOne ==
    sResult # None =>
        LET a == sArticle
        IN  /\ MetaTooShort(a) =>
                  /\ StructureBeforeClamp(a)
                        = StructureBeforeClamp([a EXCEPT !.meta_description = META_DESC_MIN]) - 1
                  /\ InSeq("Meta description too short", _score_structure(a).warnings)
            /\ MetaTooLong(a) =>
                  StructureBeforeClamp(a)
                    = StructureBeforeClamp([a EXCEPT !.meta_description = META_DESC_MAX + 20]) - 1
            /\ IntroTooLong(a) =>
                  StructureBeforeClamp(a)
                    = StructureBeforeClamp([a EXCEPT !.intro_lines = MAX_INTRO_LINES]) - 1

\* C20 (as claimed): score yields a sources sub-score for every article: 0 with a
\* warning for no source; else min(20, base + bonus) with base 14 / 10 / 6 (the last
\* with a warning) by count and bonus 6 / 4 / 2 (the last with a warning) by domain
\* diversity; so 1 or 2 sources score below 15 and carry a sources warning.
C20_SourcesSubScore ==
    sResult # None =>
        LET sources == sArticle.sources
            count   == Len(sources)
            domains == Cardinality({Domain(sources[i]) : i \in 1..count})
            base    == IF count >= 5 THEN 14 ELSE IF count >= 3 THEN 10 ELSE 6
            bonus   == IF 10 * domains >= 8 * count THEN 6
                       ELSE IF 10 * domains >= 5 * count THEN 4 ELSE 2
        IN  /\ sResult[1].exc = ""
            /\ count = 0 =>
                  /\ sResult[1].details.sources = 0
                  /\ InSeq("Sources: no sources provided", sResult[1].warnings)
                  /\ ~InSeq("Sources: low domain diversity", sResult[1].warnings)
            /\ count >= 1 => sResult[1].details.sources = Min(20, base + bonus)
            /\ count \in 1..2 =>
                  /\ sResult[1].details.sources < 15
                  /\ InSeq("Sources: only few sources", sResult[1].warnings)
            /\ (count >= 1 /\ 10 * domains < 5 * count) =>
                  InSeq("Sources: low domain diversity", sResult[1].warnings)

\* C21 (as claimed): for every article and every max similarity s handed to score, the
\* result holds the duplication sub-score 20 for s <= 0.3, 16 for s <= 0.5, 12 for
\* s <= 0.7, 8 with a duplication-risk warning for s <= 0.85 and 2 with a VERY HIGH
\* similarity warning above 0.85.
C21_DuplicationTiers ==
    sResult # None =>
        /\ sResult[1].exc = ""
        /\ sResult[1].details.duplication =
              (IF sSim <= 30000 THEN 20 ELSE IF sSim <= 50000 THEN 16
               ELSE IF sSim <= 70000 THEN 12 ELSE IF sSim <= 85000 THEN 8 ELSE 2)
        /\ (sSim > 70000 /\ sSim <= 85000) =>
              InSeq("Duplication risk: high similarity", sResult[1].warnings)
        /\ sSim > 85000 =>
              /\ sResult[1].details.duplication < 10
              /\ InSeq("Duplication risk: VERY HIGH similarity", sResult[1].warnings)

\* _validate reports a meta-length violation for the article
MetaLengthViolation(a) ==
    \E i \in 1..Len(_validate(a)) : _validate(a)[i].e = "Meta description length"

\* what _score_structure takes off for the meta description's length, in half points
MetaPenaltyHalves(a) ==
    StructureHalves([a EXCEPT !.meta_description = META_DESC_MIN]) - StructureHalves(a)

MetaWarned(a) ==
    \/ InSeq("Meta description too short", _score_structure(a).warnings)
    \/ InSeq("Meta description too long", _score_structure(a).warnings)

\* C28: for the article scored, when its meta description is not empty, _validate
\* reports a meta-length violation iff _score_structure takes one point off for the
\* length (and warns), and both do so exactly for lengths outside 150..180; an article
\* _validate accepts has no meta-length penalty and no meta-length warning.
C28_MetaLengthAgreement ==
    sResult # None =>
        LET a == sArticle
        IN  /\ a.meta_description # 0 =>
                  /\ MetaLengthViolation(a) <=> MetaPenaltyHalves(a) = 2
                  /\ ~MetaLengthViolation(a) <=> MetaPenaltyHalves(a) = 0
                  /\ MetaLengthViolation(a) <=> MetaWarned(a)
                  /\ MetaLengthViolation(a) <=> a.meta_description \notin 150..180
            /\ _validate(a) = <<>> => MetaPenaltyHalves(a) = 0 /\ ~MetaWarned(a)

\* an article the validation gate accepts, its meta description at the longest
\* accepted length, has been scored
C28_Witness ==
    /\ sResult # None
    /\ _validate(sArticle) = <<>>
    /\ sArticle.meta_description = 180

-----------------------------------------------------------------------------
(* Further properties of DeduplicationEngine, checked under SpecDedup *)

\* C16 (as claimed): for every threshold t given to DeduplicationEngine(threshold=t),
\* the engine compares against t and analyze reports threshold = t on the small-batch
\* and on the full path; the default is used only when no threshold is given.
C16_ThresholdConfigurable ==
    /\ thresholdArg # None => threshold = thresholdArg[1]
    /\ thresholdArg = None => threshold = SIMILARITY_THRESHOLD
    /\ Analyzed =>
          /\ thresholdArg # None => dResult[1].threshold = thresholdArg[1]
          /\ \A p \in PairsOf(Len(dArticles)) :
                (thresholdArg # None /\ Len(dArticles) >= 2) =>
                    (p \in EmittedPairs <=> dSims[p] > thresholdArg[1])

\* C17 (as claimed): for a batch of n >= 2, max_similarities has n entries and entry i
\* is the largest similarity of document i with another document of the batch, rounded
\* to 4 decimals, whatever the similarities are (negative ones included).
C17_MaxSimilarity ==
    (Analyzed /\ Len(dArticles) >= 2) =>
        /\ Len(dResult[1].max_similarities) = Len(dArticles)
        /\ \A i \in 1..Len(dArticles) :
              dResult[1].max_similarities[i] = Round4(SetMax(OtherSims(i)))

-----------------------------------------------------------------------------
(* Properties of _get_model under concurrent callers, checked under SpecLoad *)

\* C14 (as claimed): whatever the interleaving of the callers, the embedding model is
\* constructed at most once and all callers that returned hold the same instance.
C14_SingleInitialisation ==
    /\ constructed <= 1
    /\ \A c, d \in Callers : (cgot[c] # 0 /\ cgot[d] # 0) => cgot[c] = cgot[d]

-----------------------------------------------------------------------------
(* Properties of a provider client's generate_article, checked under SpecLlm *)

\* rate-limit, timeout and connection errors, by the class the provider's SDK raises
TransientErrors ==
    {"RateLimitError", "APITimeoutError", "APIConnectionError",
     "ResourceExhausted", "DeadlineExceeded", "ServiceUnavailable"}

LlmEnded == lpc \in {"returned", "raised"}

\* C22 (as claimed): a call makes at most MAX_RETRIES requests; only the last request
\* can succeed, and then its text is returned; every transient failure (rate limit,
\* timeout, connection) is followed by a sleep of 2^attempt seconds, and by the next
\* attempt while attempts remain; a non-transient error ends the call on its attempt,
\* re-raised unchanged; MAX_RETRIES transient failures end it with retries exhausted.
C22_ProviderRetryPolicy ==
    /\ Len(outcomes) <= MAX_RETRIES
    /\ \A k \in 1..Len(outcomes) :
          /\ outcomes[k] = "ok" => (k = Len(outcomes) /\ lpc = "returned" /\ lret = "text")
          /\ outcomes[k] \in TransientErrors =>
                /\ Len(waits) >= k /\ waits[k] = 2 ^ k
                /\ (k = Len(outcomes) /\ k < MAX_RETRIES) => lpc = "request"
          /\ outcomes[k] \notin TransientErrors \cup {"ok"} =>
                (k = Len(outcomes) /\ lpc = "raised" /\ lexc = outcomes[k])
    /\ (Len(outcomes) = MAX_RETRIES /\ LlmEnded
          /\ \A k \in 1..MAX_RETRIES : outcomes[k] \in TransientErrors) =>
             (lpc = "raised" /\ lexc = Exhausted)
    /\ lpc = "returned" => (outcomes # <<>> /\ Last(outcomes) = "ok")

-----------------------------------------------------------------------------
(* Specifications *)

InitGen   == GenInit /\ ScoreIdle /\ DedupIdle /\ PipeIdle /\ LoadInit /\ LlmInit
InitScore == ScoreInit /\ GenInit /\ DedupIdle /\ PipeIdle /\ LoadInit /\ LlmInit
InitDedup == DedupInit /\ GenInit /\ ScoreIdle /\ PipeIdle /\ LoadInit /\ LlmInit
InitPipe  == PipeInit /\ GenInit /\ ScoreIdle /\ DedupIdle /\ LoadInit /\ LlmInit
InitLoad  == LoadInit /\ GenInit /\ ScoreIdle /\ DedupIdle /\ PipeIdle /\ LlmInit
InitLlm   == LlmInit /\ GenInit /\ ScoreIdle /\ DedupIdle /\ PipeIdle /\ LoadInit

SpecGen   == InitGen /\ [][GenNext]_vars
SpecScore == InitScore /\ [][ScoreNext]_vars
SpecDedup == InitDedup /\ [][DedupNext]_vars
SpecPipe  == InitPipe /\ [][PipeNext]_vars
SpecLoad  == InitLoad /\ [][LoadNext]_vars
SpecLlm   == InitLlm /\ [][LlmNext]_vars

=============================================================================
